---- MODULE Spec2Model ----
(***************************************************************************)
(* Generator.fill of src/src/generation/generator.ts: one table is filled  *)
(* through a DatabaseConnector.  Every await of a connector call is one    *)
(* step; the synchronous code that follows it, up to the next await, is    *)
(* part of the same step.  The connector is the environment: each call     *)
(* either fails or returns a value drawn from a small set.                 *)
(***************************************************************************)
EXTENDS Integers, Sequences, FiniteSets, TLC

\* ---------------------------------------------------------------- bounds
\* addLines / maxLines of the small tables range over 0..MaxSmallLines
MaxSmallLines == 2
\* addLines / maxLines of the large tables (more than one full batch)
BigLines == 1001
\* countLines reports a value in 0..MaxCount
MaxCount == 2
\* a table has no hooks, or MaxHook before and MaxHook after statements
MaxHook == 2
\* the random source of a batch starts at a draw in 0..MaxDraw
MaxDraw == 1
\* ------------------------------------------------------ program constants
\* the JavaScript value undefined: an optional field that is absent, and the
\* value of an array read past its end
Undefined == -1
\* the JavaScript value null
Null == -2
\* Math.min(1000, ...)
BatchCap == 1000

Min(a, b) == IF a < b THEN a ELSE b
Max(a, b) == IF a > b THEN a ELSE b

\* JavaScript truthiness of an optional number: undefined and 0 are falsy
Truthy(x) == x # Undefined /\ x # 0

\* ------------------------------------------------------------ descriptors
\* the values override of a column: none, a literal array, the name of a
\* pool of schema.values, or a map from value to weight (keys in the order
\* of Object.keys, weights beside them)
NoValues == [kind |-> "none", pool |-> <<>>, name |-> "", weights |-> <<>>]
Literal(pool) == [kind |-> "array", pool |-> pool, name |-> "", weights |-> <<>>]
NamedPool(name) == [kind |-> "string", pool |-> <<>>, name |-> name, weights |-> <<>>]
Weighted(keys, weights) == [kind |-> "object", pool |-> keys, name |-> "", weights |-> weights]

\* this.schema: the shared value pools and the ceiling of string lengths
Schema == [values |-> [colors |-> <<7101, 7102>>], maxCharLength |-> 5]

\* a column descriptor; foreignKey says whether column.foreignKey is set and
\* where is column.foreignKey.where ("" when absent)
Col(name, fk, nullable, auto) ==
    [name |-> name, foreignKey |-> fk, where |-> "", values |-> NoValues,
     generator |-> "int",
     options |-> [nullable |-> nullable, autoIncrement |-> auto, unique |-> FALSE,
                  min |-> 0, max |-> 2]]

ColId     == Col("id", FALSE, FALSE, TRUE)
ColOwner  == Col("owner", TRUE, FALSE, FALSE)
ColParent == Col("parent", TRUE, TRUE, FALSE)

\* a foreign key that is auto-increment as well
ColRef == Col("ref", TRUE, FALSE, TRUE)
\* a foreign key with a literal values override
ColKind == [Col("kind", TRUE, FALSE, FALSE) EXCEPT !.values = Literal(<<7001, 7002>>)]
\* an auto-increment column with a values override
ColSerial == [Col("serial", FALSE, FALSE, TRUE) EXCEPT !.values = Literal(<<7001>>)]
\* a nullable column with a named pool
ColColor == [Col("color", FALSE, TRUE, FALSE) EXCEPT !.values = NamedPool("colors")]
\* a nullable column with a weight map; one weight is 0
ColWeight ==
    [Col("weight", FALSE, TRUE, FALSE) EXCEPT
        !.values = Weighted(<<7201, 7202, 7203>>, <<1, 0, 2>>)]
\* a unique foreign key with a where filter
ColTenant ==
    [Col("tenant", TRUE, FALSE, FALSE) EXCEPT
        !.where = "active = 1", !.options.unique = TRUE]

\* one generator tag of each case of the switch of lines 126-218
GeneratorTags ==
    { "bit", "tinyint", "bool", "smallint", "mediumint", "int", "decimal", "date",
      "time", "year", "varchar", "tinyblob", "text", "blob", "set", "enum" }

\* a column synthesized from its generator tag
Gen(tag, nullable, unique, max) ==
    [Col("value", FALSE, nullable, FALSE) EXCEPT
        !.generator = tag, !.options.unique = unique, !.options.max = max]

GeneratorColumns ==
    { Gen(tag, nullable, unique, 2) :
        tag \in GeneratorTags, nullable \in BOOLEAN, unique \in BOOLEAN }
    \cup { Gen("varchar", nullable, unique, 36) :
              nullable \in BOOLEAN, unique \in BOOLEAN }

\* the column lists whose rows are drawn at random
RandomLists ==
    { <<ColRef, ColKind>>, <<ColSerial, ColColor, ColWeight, ColTenant>> }
    \cup { <<ColId, g>> : g \in GeneratorColumns }

ColumnLists ==
    { <<ColId>>, <<ColId, ColOwner>>,
      <<ColId, ColParent, ColOwner>>, <<ColId, ColOwner, ColParent>> }
    \cup RandomLists

\* raw statements are opaque: the i-th statement of a hook is <<hook, i>>
NoStatement == <<>>
BeforeHook(n) == [i \in 1..n |-> <<"before", i>>]
AfterHook(n) == [i \in 1..n |-> <<"after", i>>]

LineValues == {Undefined} \cup (0..MaxSmallLines) \cup {BigLines}

\* RequireAtLeastOne<BaseTable, 'maxLines' | 'addLines'>
Tables ==
    { [columns |-> cols, before |-> BeforeHook(n), after |-> AfterHook(n),
       maxLines |-> ml, addLines |-> al] :
        cols \in ColumnLists, n \in {0, MaxHook},
        ml \in LineValues, al \in LineValues }

ValidTable(t) ==
    /\ t.maxLines # Undefined \/ t.addLines # Undefined
    \* the large tables: no small limit beside the large one, both hooks, at
    \* most one foreign key
    /\ (t.maxLines = BigLines \/ t.addLines = BigLines) =>
          /\ t.maxLines \in {Undefined, BigLines}
          /\ t.addLines \in {Undefined, BigLines}
          /\ Len(t.before) = MaxHook
          /\ Len(t.columns) <= 2
          /\ t.columns \notin RandomLists
    \* the tables with random rows: small, maxLines alone, and hooks only when
    \* the first column is a foreign key
    /\ t.columns \in RandomLists =>
          /\ t.addLines = Undefined
          /\ (Len(t.before) = 0 \/ t.columns[1].foreignKey)

VARIABLES
    table,                  \* the TableDescriptor passed to fill
    reset,                  \* the reset argument of fill
    pc,                     \* the await fill is suspended at, or how it ended
    q,                      \* index of the hook statement being executed
    c,                      \* index of the column getForeignKeyValues is at
    currentNbRows,          \* generateData: tracked row count
    previousRunRows,        \* generateData: row count at the start of the iteration
    maxLines,               \* generateData: the computed target
    runRows,                \* generateData: size of the current batch
    rows,                   \* generateData: the rows of the current batch
    tableForeignKeyValues,  \* generateData: key -> sampled pool
    calls,                  \* every connector call made so far, with its outcome
    console,                \* what was written with console.warn / console.log
    error                   \* the error fill rejected with

vars == <<table, reset, pc, q, c, currentNbRows, previousRunRows, maxLines,
          runRows, rows, tableForeignKeyValues, calls, console, error>>

\* ------------------------------------------------------- connector answers
\* a connector call: op is the method, sql the statement of executeRawQuery,
\* col the column index of getValuesForForeignKeys, n the number of rows asked
\* for or given, res the number of rows or values reported back (Undefined
\* for a void method and for a failed call), ok whether the call returned
Call(op, sql, col, n, res, ok) ==
    [op |-> op, sql |-> sql, col |-> col, n |-> n, res |-> res, ok |-> ok,
     unique |-> FALSE, where |-> ""]

\* the call without the column's unique flag and where filter
FetchCall_Plain(column, col, n, res, ok) ==
    Call("getValuesForForeignKeys", NoStatement, col, n, res, ok)

\* lines 42-50: the call of getValuesForForeignKeys for a column, with its
\* unique flag and its where filter
FetchCall(column, col, n, res, ok) ==
    [Call("getValuesForForeignKeys", NoStatement, col, n, res, ok) EXCEPT
        !.unique = column.options.unique, !.where = column.where]

\* the error fill rejects with is the failed call
NoError == Call("none", NoStatement, 0, 0, Undefined, TRUE)

\* insert(tableName, rows) -> number of rows actually inserted: any number in
\* 0..n for the batches of the small tables; none, all but one or all of them
\* for a larger batch
InsertReports(n) ==
    IF n <= MaxSmallLines THEN 0..n ELSE {0, n - 1, n}

\* the sizes of the pool a fetch of count values returns: empty, one short, full
PoolSizes(count) == {0, count - 1, count} \cap (0..count)

\* getValuesForForeignKeys(..., count, ...) -> up to count sampled values.
\* The referenced table changes between fetches: the values sampled by the
\* fetch that is the clock-th connector call are clock + 1, clock + 2, ...
ForeignKeyPools(count, clock) ==
    { [i \in 1..len |-> clock + i] : len \in PoolSizes(count) }

\* ------------------------------------------------------- generateData, pure
\* lines 81-86: the target row count
Target(t, cur) ==
    IF Truthy(t.addLines)
    THEN IF Truthy(t.maxLines) THEN Min(cur + t.addLines, t.maxLines)
                               ELSE cur + t.addLines
    ELSE IF Truthy(t.maxLines) THEN t.maxLines ELSE 0

\* mutant of WhileCond: the loop also runs when the target is just reached
WhileCond_Inclusive(cur, target) == cur <= target

\* line 87: the loop condition
WhileCond(cur, target) == cur < target

\* mutant of RunRows: every batch is a full batch
RunRows_FullBatch(target, cur) == BatchCap

\* mutant of RunRows: the batch is not capped
RunRows_Uncapped(target, cur) == target - cur

\* line 91: the size of a batch
RunRows(target, cur) == Min(BatchCap, target - cur)

\* mutant of Starved: the nullable test is inverted
Starved_Inverted(values, column) == Len(values) = 0 /\ column.options.nullable

\* line 51: no value for a column that needs one
Starved(values, column) == Len(values) = 0 /\ ~column.options.nullable

\* mutant of Stalled: the stall is never detected
Stalled_Never(prev, cur) == FALSE

\* line 223: the batch added nothing
Stalled(prev, cur) == prev = cur

\* mutant of NextForeignKey: only the columns whose pool the rows read
NextForeignKey_SkipUnread(columns, from) ==
    LET S == { k \in from..Len(columns) :
                 /\ columns[k].foreignKey
                 /\ columns[k].values.kind = "none"
                 /\ ~columns[k].options.autoIncrement }
    IN IF S = {} THEN 0 ELSE CHOOSE k \in S : \A j \in S : k <= j

\* lines 38-40: the first foreign-key column at or after index from, 0 if none
NextForeignKey(columns, from) ==
    LET S == { k \in from..Len(columns) : columns[k].foreignKey }
    IN IF S = {} THEN 0 ELSE CHOOSE k \in S : \A j \in S : k <= j

\* line 54 / 122: the key of a column's pool (column names are unique in a table)
Key(column) == column.name

\* The random source of one batch: the first draw of Randomizer and the first
\* outcome of the test Math.random() <= 0.1. The cell of row i and column k
\* takes draw seed[1] + i + k and the test outcome seed[2] flipped i + k times.
Seeds == (0..MaxDraw) \X BOOLEAN
Draw(seed, i, k) == seed[1] + i + k
Chance(seed, i, k) == IF (i + k) % 2 = 0 THEN seed[2] ELSE ~seed[2]

\* Randomizer.randomInt(min, max): an integer of min..max, both ends included
RandomInt(min, max, r) == min + (r % (max - min + 1))
\* Randomizer.randomBit(length): a pattern of length bits
RandomBit(length, r) == r % (2 ^ length)
\* Randomizer.randomFloat(min, max): a number of [min, max], here a whole one
RandomFloat(min, max, r) == min + (r % (max - min + 1))
\* Randomizer.randomDate(min, max): an instant of [min, max], in days
RandomDate(min, max, r) == min + (r % (max - min + 1))
\* Randomizer.randomString(length): a string of that length, written as its
\* length
RandomString(length, r) == length
\* line 162: new Date(), the day of the run counted from 1 January 1970
Today == 20760
\* line 185: uuid4 yields a string of 36 characters
Uuid4(r) == 36
\* line 173: the text hours:minutes:seconds, written as one number
TimeText(hours, minutes, seconds) == (hours + 838) * 3600 + minutes * 60 + seconds

\* lines 111-115: each key of the weight map, repeated weight times
RECURSIVE Repeat(_, _)
Repeat(key, weight) == IF weight <= 0 THEN <<>> ELSE <<key>> \o Repeat(key, weight - 1)
RECURSIVE ValuesWithRatio(_, _, _)
ValuesWithRatio(keys, weights, from) ==
    IF from > Len(keys) THEN <<>>
    ELSE Repeat(keys[from], weights[from]) \o ValuesWithRatio(keys, weights, from + 1)

\* the element of a JavaScript array at an index counted from 0
At(array, index) == IF index + 1 \in DOMAIN array THEN array[index + 1] ELSE Undefined

\* lines 105-118: the pool of a values override
OverridePool(column) ==
    CASE column.values.kind = "array"  -> column.values.pool
      [] column.values.kind = "string" -> Schema.values[column.values.name]
      [] column.values.kind = "object" ->
            ValuesWithRatio(column.values.pool, column.values.weights, 1)

\* lines 107, 109, 116: a uniform pick of the pool
PickValue(column, r) ==
    At(OverridePool(column), RandomInt(0, Len(OverridePool(column)) - 1, r))

\* the substitution that leaves null out
OrNull_Never(column, chance, value) == value

\* lines 129-130 and their copies in the other cases
OrNull(column, chance, value) ==
    IF column.options.nullable /\ chance THEN Null ELSE value

\* lines 126-218: the value of a column synthesized from its generator tag
Generate(column, r, chance) ==
    LET o == column.options
        tag == column.generator
        upTo == Min(Schema.maxCharLength, o.max)
    IN CASE tag = "bit" -> OrNull(column, chance, RandomBit(o.max, r))
         [] tag = "tinyint" -> OrNull(column, chance, RandomInt(o.min, o.max, r))
         [] tag \in {"bool", "boolean"} -> OrNull(column, chance, RandomInt(0, 1, r))
         [] tag = "smallint" -> OrNull(column, chance, RandomInt(o.min, o.max, r))
         [] tag = "mediumint" -> OrNull(column, chance, RandomInt(o.min, o.max, r))
         [] tag \in {"int", "integer", "bigint"} ->
               OrNull(column, chance, RandomInt(o.min, o.max, r))
         [] tag \in {"decimal", "dec", "float", "double"} ->
               OrNull(column, chance, RandomFloat(o.min, o.max, r))
         [] tag \in {"date", "datetime", "timestamp"} ->
               OrNull(column, chance,
                      RandomDate(IF Truthy(o.min) THEN o.min ELSE 0,
                                 IF Truthy(o.max) THEN o.max ELSE Today, r))
         [] tag = "time" ->
               OrNull(column, chance,
                      TimeText(RandomInt(-838, 838, r), RandomInt(0, 59, r + 1),
                               RandomInt(0, 59, r + 2)))
         [] tag = "year" -> OrNull(column, chance, RandomInt(o.min, o.max, r))
         [] tag \in {"varchar", "char", "binary", "varbinary"} ->
               IF o.max >= 36 /\ o.unique
               THEN Uuid4(r)
               ELSE OrNull(column, chance, RandomString(RandomInt(o.min, upTo, r), r))
         [] tag = "tinyblob" ->
               OrNull(column, chance, RandomString(RandomInt(0, 10, r), r))
         [] tag \in {"text", "mediumtext", "longtext"} ->
               OrNull(column, chance, RandomString(RandomInt(0, upTo, r), r))
         [] tag \in {"blob", "mediumblob", "longblob"} ->
               OrNull(column, chance, RandomString(RandomInt(0, upTo, r), r))
         [] tag = "set" -> OrNull(column, chance, RandomBit(o.max, r))
         [] tag = "enum" ->
               IF o.nullable THEN r % (o.max + 1) ELSE (r % o.max) + 1

\* the entry of a pool at the row's index
ForeignKey_Wrapped(pool, i) ==
    IF Len(pool) = 0 THEN Undefined ELSE pool[((i - 1) % Len(pool)) + 1]

\* line 122-123: foreignKeys[i], undefined past the end of the pool
ForeignKey(pool, i) == IF i <= Len(pool) THEN pool[i] ELSE Undefined

\* the cell with the foreign key looked at before the values override
Cell_ForeignKeyFirst(i, k, columns, pools, seed) ==
    IF columns[k].foreignKey
    THEN ForeignKey(pools[Key(columns[k])], i)
    ELSE IF columns[k].values.kind # "none"
    THEN PickValue(columns[k], Draw(seed, i, k))
    ELSE Generate(columns[k], Draw(seed, i, k), Chance(seed, i, k))

\* lines 105-218: the value of column k in row i
Cell(i, k, columns, pools, seed) ==
    IF columns[k].values.kind # "none"
    THEN PickValue(columns[k], Draw(seed, i, k))
    ELSE IF columns[k].foreignKey
    THEN ForeignKey(pools[Key(columns[k])], i)
    ELSE Generate(columns[k], Draw(seed, i, k), Chance(seed, i, k))

\* the row with the auto-increment columns kept
SynthRow_KeepAuto(i, columns, pools, seed) ==
    [name \in { columns[k].name : k \in 1..Len(columns) } |->
        Cell(i, CHOOSE k \in 1..Len(columns) : columns[k].name = name,
             columns, pools, seed)]

\* lines 101-220: row i of a batch (i counts from 1 here, from 0 in the code)
SynthRow(i, columns, pools, seed) ==
    LET kept == { k \in 1..Len(columns) : ~columns[k].options.autoIncrement }
    IN [name \in { columns[k].name : k \in kept } |->
          Cell(i, CHOOSE k \in kept : columns[k].name = name, columns, pools, seed)]

\* the batch cut down to the rows the shortest pool can serve
SynthRows_Shrunk(n, columns, pools, seed) ==
    LET served(m) == \A key \in DOMAIN pools : m <= Len(pools[key])
        size == IF served(n) THEN n ELSE CHOOSE m \in 0..n : served(m) /\ ~served(m + 1)
    IN [i \in 1..size |-> SynthRow(i, columns, pools, seed)]

\* lines 100-221
SynthRows(n, columns, pools, seed) ==
    [i \in 1..n |-> SynthRow(i, columns, pools, seed)]

WarnStarved == [level |-> "warn", msg |-> "Not enough values available for foreign key", rows |-> 0, of |-> 0]
WarnError   == [level |-> "warn", msg |-> "connector error", rows |-> 0, of |-> 0]
WarnStalled == [level |-> "warn", msg |-> "Last run didn't insert any new rows", rows |-> 0, of |-> 0]
\* line 227
Progress(cur, t) == [level |-> "log", msg |-> "progress", rows |-> cur, of |-> t.maxLines]

\* ------------------------------------------------------------------ state
Init ==
    /\ table \in { t \in Tables : ValidTable(t) }
    /\ reset \in BOOLEAN
    /\ pc = "fill"
    /\ q = 0
    /\ c = 0
    /\ currentNbRows = 0
    /\ previousRunRows = -1
    /\ maxLines = 0
    /\ runRows = 0
    /\ rows = <<>>
    /\ tableForeignKeyValues = << >>
    /\ calls = <<>>
    /\ console = <<>>
    /\ error = NoError

\* mutant of Throw: the error is swallowed and fill returns
Throw_Swallowed(call) ==
    /\ pc' = "returned"
    /\ error' = NoError
    /\ calls' = Append(calls, call)

\* fill rejects with the failed call; nothing after the await runs
Throw(call) ==
    /\ pc' = "threw"
    /\ error' = call
    /\ calls' = Append(calls, call)

\* mutant of RunBefore: the before statements are not executed
RunBefore_Skipped == pc' = "countLines" /\ q' = 0

\* line 62: this.before(table), up to its first await (line 68: no statement,
\* no call) and then line 63
RunBefore ==
    IF Len(table.before) = 0
    THEN pc' = "countLines" /\ q' = 0
    ELSE pc' = "before" /\ q' = 1

\* mutant of RunAfter: the after statements are not executed
RunAfter_Skipped == pc' = "returned" /\ q' = 0

\* line 64: this.after(table), up to its first await; then fill returns
RunAfter ==
    IF Len(table.after) = 0
    THEN pc' = "returned" /\ q' = 0
    ELSE pc' = "after" /\ q' = 1

\* lines 38-56 from column index from, then lines 100-222: either the next
\* getValuesForForeignKeys, or the rows are synthesized and insert is called
Resolve(from, n, pools) ==
    LET k == NextForeignKey(table.columns, from)
    IN /\ tableForeignKeyValues' = pools
       /\ c' = k
       /\ IF k # 0
          THEN pc' = "getValuesForForeignKeys" /\ rows' = <<>>
          ELSE /\ pc' = "insert"
               /\ \E seed \in Seeds : rows' = SynthRows(n, table.columns, pools, seed)

\* break batch (lines 97, 225) or the loop condition failing: generateData
\* returns and fill goes on with line 64
Leave ==
    /\ c' = 0
    /\ rows' = <<>>
    /\ RunAfter
    /\ UNCHANGED <<previousRunRows, runRows, tableForeignKeyValues>>

\* line 87 onwards: the loop test and one iteration up to its first await
While(cur, target) ==
    IF WhileCond(cur, target)
    THEN /\ previousRunRows' = cur
         /\ runRows' = RunRows(target, cur)
         /\ Resolve(1, RunRows(target, cur), tableForeignKeyValues)
         /\ q' = 0
    ELSE Leave

\* ---------------------------------------------------------------- actions
\* line 59-60: fill is called
fill ==
    /\ pc = "fill"
    /\ IF reset THEN pc' = "emptyTable" /\ q' = 0 ELSE RunBefore
    /\ UNCHANGED <<table, reset, c, currentNbRows, previousRunRows, maxLines,
                   runRows, rows, tableForeignKeyValues, calls, console, error>>

\* lines 32-35, 60: await emptyTable
empty ==
    /\ pc = "emptyTable"
    /\ \/ /\ calls' = Append(calls, Call("emptyTable", NoStatement, 0, 0, Undefined, TRUE))
          /\ RunBefore
          /\ UNCHANGED error
       \/ /\ Throw(Call("emptyTable", NoStatement, 0, 0, Undefined, FALSE))
          /\ UNCHANGED q
    /\ UNCHANGED <<table, reset, c, currentNbRows, previousRunRows, maxLines,
                   runRows, rows, tableForeignKeyValues, console>>

\* lines 67-73: await executeRawQuery of the q-th before statement
before ==
    /\ pc = "before"
    /\ \/ /\ calls' = Append(calls, Call("executeRawQuery", table.before[q], 0, 0, Undefined, TRUE))
          /\ IF q < Len(table.before)
             THEN pc' = "before" /\ q' = q + 1
             ELSE pc' = "countLines" /\ q' = 0
          /\ UNCHANGED error
       \/ /\ Throw(Call("executeRawQuery", table.before[q], 0, 0, Undefined, FALSE))
          /\ UNCHANGED q
    /\ UNCHANGED <<table, reset, c, currentNbRows, previousRunRows, maxLines,
                   runRows, rows, tableForeignKeyValues, console>>

\* lines 76-87: await countLines, compute the target, enter the loop
countLines ==
    /\ pc = "countLines"
    /\ \/ \E n \in 0..MaxCount :
            /\ calls' = Append(calls, Call("countLines", NoStatement, 0, 0, n, TRUE))
            /\ currentNbRows' = n
            /\ maxLines' = Target(table, n)
            /\ While(n, Target(table, n))
            /\ UNCHANGED error
       \/ /\ Throw(Call("countLines", NoStatement, 0, 0, Undefined, FALSE))
          /\ UNCHANGED <<q, c, currentNbRows, previousRunRows, maxLines, runRows,
                         rows, tableForeignKeyValues>>
    /\ UNCHANGED <<table, reset, console>>

\* lines 42-54, 93-98: await getValuesForForeignKeys for column c
getForeignKeyValues ==
    /\ pc = "getValuesForForeignKeys"
    /\ \/ \E values \in ForeignKeyPools(runRows, Len(calls) + 1) :
            /\ calls' = Append(calls, FetchCall(table.columns[c], c, runRows,
                                                Len(values), TRUE))
            /\ IF Starved(values, table.columns[c])
               THEN \* line 52 throws, line 95 catches
                    /\ console' = Append(console, WarnStarved)
                    /\ Leave
               ELSE /\ Resolve(c + 1, runRows,
                               [k \in DOMAIN tableForeignKeyValues \cup {Key(table.columns[c])} |->
                                  IF k = Key(table.columns[c]) THEN values
                                  ELSE tableForeignKeyValues[k]])
                    /\ UNCHANGED <<console, q, previousRunRows, runRows>>
       \/ \* the connector's error is thrown inside the try of line 93
          /\ calls' = Append(calls, FetchCall(table.columns[c], c, runRows,
                                              Undefined, FALSE))
          /\ console' = Append(console, WarnError)
          /\ Leave
    /\ UNCHANGED <<table, reset, currentNbRows, maxLines, error>>

\* lines 222-228, then the next iteration: await insert
insert ==
    /\ pc = "insert"
    /\ \/ \E k \in InsertReports(Len(rows)) :
            /\ calls' = Append(calls, Call("insert", NoStatement, 0, Len(rows), k, TRUE))
            /\ currentNbRows' = currentNbRows + k
            /\ IF Stalled(previousRunRows, currentNbRows + k)
               THEN /\ console' = Append(console, WarnStalled)
                    /\ Leave
               ELSE /\ console' = Append(console, Progress(currentNbRows + k, table))
                    /\ While(currentNbRows + k, maxLines)
            /\ UNCHANGED error
       \/ /\ Throw(Call("insert", NoStatement, 0, Len(rows), Undefined, FALSE))
          /\ UNCHANGED <<q, c, currentNbRows, previousRunRows, runRows, rows,
                         tableForeignKeyValues, console>>
    /\ UNCHANGED <<table, reset, maxLines>>

\* lines 231-237: await executeRawQuery of the q-th after statement
after ==
    /\ pc = "after"
    /\ \/ /\ calls' = Append(calls, Call("executeRawQuery", table.after[q], 0, 0, Undefined, TRUE))
          /\ IF q < Len(table.after)
             THEN pc' = "after" /\ q' = q + 1
             ELSE pc' = "returned" /\ q' = 0
          /\ UNCHANGED error
       \/ /\ Throw(Call("executeRawQuery", table.after[q], 0, 0, Undefined, FALSE))
          /\ UNCHANGED q
    /\ UNCHANGED <<table, reset, c, currentNbRows, previousRunRows, maxLines,
                   runRows, rows, tableForeignKeyValues, console>>

Next ==
    \/ fill
    \/ empty
    \/ before
    \/ countLines
    \/ getForeignKeyValues
    \/ insert
    \/ after

Spec == Init /\ [][Next]_vars

\* every connector call returns or fails: an awaited step is always taken
FairSpec == Init /\ [][Next]_vars /\ WF_vars(Next)

\* ------------------------------------------------- reading the call log
Done == pc \in {"returned", "threw"}

CallsOf(op) == { i \in 1..Len(calls) : calls[i].op = op }

\* countLines has answered
Counted == \E i \in CallsOf("countLines") : calls[i].ok

\* the row count countLines reported
InitialCount ==
    LET i == CHOOSE i \in CallsOf("countLines") : calls[i].ok IN calls[i].res

\* the sum of the counts insert reported in calls 1..i
RECURSIVE InsertedUpTo(_)
InsertedUpTo(i) ==
    IF i = 0 THEN 0
    ELSE InsertedUpTo(i - 1)
         + (IF calls[i].op = "insert" /\ calls[i].ok THEN calls[i].res ELSE 0)

\* the table's row count: what countLines reported plus what insert reported
RowCount == InitialCount + InsertedUpTo(Len(calls))

\* an insert reported that it added nothing
StallAt(i) == calls[i].op = "insert" /\ calls[i].ok /\ calls[i].res = 0

\* a fetch returned no value for a foreign-key column that is not nullable
StarvedAt(i) ==
    /\ calls[i].op = "getValuesForForeignKeys" /\ calls[i].ok /\ calls[i].res = 0
    /\ ~table.columns[calls[i].col].options.nullable

\* a fetch failed in the connector
FetchFailedAt(i) == calls[i].op = "getValuesForForeignKeys" /\ ~calls[i].ok

StallSeen == \E i \in 1..Len(calls) : StallAt(i)
StarvedSeen == \E i \in 1..Len(calls) : StarvedAt(i)
FetchFailedSeen == \E i \in 1..Len(calls) : FetchFailedAt(i)

\* the target as the specification states it (section 4.2): a limit is set
\* when it is present, whatever its value
StatedTarget(t, cur) ==
    IF t.addLines # Undefined
    THEN IF t.maxLines # Undefined THEN Min(cur + t.addLines, t.maxLines)
                                   ELSE cur + t.addLines
    ELSE t.maxLines

\* ------------------------------------------------------------------ C1
\* C1 as stated: after fill the table's row count (the count countLines
\* reported plus the counts insert reported) is at most the target, and when
\* fill returned it equals the target unless a stall or a foreign-key
\* starvation aborted the loop.
C1_TargetBound_AsStated ==
    (Done /\ Counted) =>
        /\ RowCount <= StatedTarget(table, InitialCount)
        /\ (pc = "returned" /\ ~StallSeen /\ ~StarvedSeen) =>
              RowCount = StatedTarget(table, InitialCount)

\* C1 amended: the row count never exceeds the larger of the initial count
\* and the target computed by generateData; when fill returned it equals the
\* target unless the initial count was already above the target (then no row
\* is added) or the loop was aborted by a stall, a starvation or a failed
\* foreign-key fetch.
C1_TargetBound ==
    Counted =>
        /\ RowCount <= Max(InitialCount, maxLines)
        /\ InitialCount > maxLines => RowCount = InitialCount
        /\ (pc = "returned" /\ InitialCount <= maxLines
              /\ ~StallSeen /\ ~StarvedSeen /\ ~FetchFailedSeen) => RowCount = maxLines

\* fill returned with the table filled to a target above its initial count,
\* in more than one batch
C1_Witness ==
    /\ pc = "returned" /\ Counted
    /\ InitialCount < maxLines /\ RowCount = maxLines
    /\ Cardinality(CallsOf("insert")) >= 2

\* ------------------------------------------------------------------ C2
\* C2: every insert call is given exactly min(1000, target - row count so
\* far) rows, which is at least 1 and at most 1000.
C2_BatchCap ==
    \A i \in CallsOf("insert") :
        /\ calls[i].n = Min(1000, maxLines - (InitialCount + InsertedUpTo(i - 1)))
        /\ calls[i].n >= 1
        /\ calls[i].n <= 1000

\* a full batch of 1000 rows was inserted and then a smaller one
C2_Witness ==
    \E i, j \in CallsOf("insert") :
        i < j /\ calls[i].n = 1000 /\ calls[i].ok /\ calls[j].n < 1000 /\ calls[j].ok

\* ------------------------------------------------------------------ C3
\* C3: with reset = false and a reported row count at or above the computed
\* target, fill calls neither insert nor getValuesForForeignKeys nor
\* emptyTable.
C3_FullTableNoOp ==
    (~reset /\ Counted /\ InitialCount >= maxLines) =>
        /\ CallsOf("insert") = {}
        /\ CallsOf("getValuesForForeignKeys") = {}
        /\ CallsOf("emptyTable") = {}

\* fill returned on a table with foreign keys that was already at its target
C3_Witness ==
    /\ pc = "returned" /\ ~reset /\ Counted
    /\ maxLines > 0 /\ InitialCount >= maxLines
    /\ NextForeignKey(table.columns, 1) # 0

\* ------------------------------------------------------------------ C4
\* C4 as stated: with addLines set (to any value >= 0) the target is
\* currentRows + addLines, clamped to maxLines when maxLines is set too;
\* with addLines not set the target is maxLines.
C4_Target_AsStated ==
    Counted => maxLines = StatedTarget(table, InitialCount)

\* ------------------------------------------------------------------ C5
\* C5: fill ends (it returns or it fails to its caller), and a batch after
\* which the loop goes on has strictly increased the tracked row count.
C5_Termination ==
    /\ <>Done
    /\ [][(pc = "insert" /\ pc' \in {"insert", "getValuesForForeignKeys"})
            => currentNbRows' > currentNbRows]_vars

\* fill returned after an insert that reported 0 rows
C5_Witness == pc = "returned" /\ StallSeen

\* ------------------------------------------------------------------ C6
\* C6: once an insert has reported 0 rows, a stall warning has been written
\* and every later connector call is the execution of an after statement:
\* no fetch, no insert, and no emptyTable that would drop the rows inserted
\* before; the tracked row count keeps what the earlier batches added.
C6_StallAbort ==
    \A i \in 1..Len(calls) :
        StallAt(i) =>
            /\ \E w \in 1..Len(console) : console[w] = WarnStalled
            /\ \A j \in (i + 1)..Len(calls) :
                  /\ calls[j].op = "executeRawQuery"
                  /\ \E a \in 1..Len(table.after) : calls[j].sql = table.after[a]
            /\ pc \in {"after", "returned", "threw"}
            /\ currentNbRows = InitialCount + InsertedUpTo(i)

\* a batch added rows, the next one stalled, and fill returned
C6_Witness ==
    /\ pc = "returned"
    /\ \E i, j \in CallsOf("insert") : i < j /\ calls[i].res > 0 /\ StallAt(j)

\* ------------------------------------------------------------------ C7
\* C7: once a fetch has returned no value for a foreign-key column that is
\* not nullable, every later connector call is the execution of an after
\* statement: no insert, no further fetch, no emptyTable.
C7_StarvationAbort ==
    \A i \in 1..Len(calls) :
        StarvedAt(i) =>
            /\ \A j \in (i + 1)..Len(calls) :
                  /\ calls[j].op = "executeRawQuery"
                  /\ \E a \in 1..Len(table.after) : calls[j].sql = table.after[a]
            /\ pc \in {"after", "returned", "threw"}
            /\ currentNbRows = InitialCount + InsertedUpTo(i)

\* a batch was inserted, a fetch of the next batch starved, and fill returned
C7_Witness ==
    /\ pc = "returned"
    /\ \E i \in CallsOf("insert") : \E j \in CallsOf("getValuesForForeignKeys") :
          i < j /\ calls[i].res > 0 /\ StarvedAt(j)

\* ------------------------------------------------------------------ C8
\* the calls made after call i are the executions of the first n after
\* statements, in list order
AfterPrefixFrom(i, n) ==
    /\ Len(calls) = i + n
    /\ \A a \in 1..n :
          calls[i + a].op = "executeRawQuery" /\ calls[i + a].sql = table.after[a]

\* C8: after a stall or a starvation abort fill goes on with the after
\* statements instead of failing: the abort itself never makes fill fail (if
\* fill fails, the failed call is an after statement), the after statements
\* are executed in list order, and when fill has returned every one of them
\* has been executed.
C8_AbortsReported ==
    \A i \in 1..Len(calls) :
        (StallAt(i) \/ StarvedAt(i)) =>
            /\ pc \in {"after", "returned", "threw"}
            /\ \E n \in 0..Len(table.after) : AfterPrefixFrom(i, n)
            /\ \A j \in (i + 1)..Len(calls) : j < Len(calls) => calls[j].ok
            /\ pc = "threw" =>
                  /\ Len(calls) > i
                  /\ error = calls[Len(calls)]
                  /\ ~error.ok
            /\ pc = "returned" =>
                  /\ AfterPrefixFrom(i, Len(table.after))
                  /\ \A j \in (i + 1)..Len(calls) : calls[j].ok
                  /\ error = NoError

\* fill returned after a starvation abort and two after statements
C8_Witness ==
    /\ pc = "returned" /\ StarvedSeen
    /\ Len(table.after) >= 2
    /\ calls[Len(calls)].sql = table.after[Len(table.after)]

\* ------------------------------------------------------------------ C9
\* the phase a connector call belongs to
Phase(call) ==
    CASE call.op = "emptyTable" -> 0
      [] call.op = "executeRawQuery" /\ call.sql[1] = "before" -> 1
      [] call.op = "countLines" -> 2
      [] call.op \in {"getValuesForForeignKeys", "insert"} -> 3
      [] call.op = "executeRawQuery" /\ call.sql[1] = "after" -> 4

\* the calls of phase p, in the order they were made
CallsInPhase(p) == SelectSeq(calls, LAMBDA call : Phase(call) = p)

\* the statements are executed in list order, each at most once
InListOrder(done, hook) ==
    /\ Len(done) <= Len(hook)
    /\ \A k \in 1..Len(done) : done[k].sql = hook[k]

\* C9: emptyTable is the first call when reset is true and is never called
\* otherwise; then come the before statements in list order, each executed
\* once and only after the one before it returned; then countLines, once;
\* then the fetches and inserts; then the after statements in list order,
\* each once.  When fill has returned, every statement of both hooks has been
\* executed.
C9_CallOrder ==
    /\ \A i, j \in 1..Len(calls) : i < j => Phase(calls[i]) <= Phase(calls[j])
    /\ Len(CallsInPhase(0)) = (IF reset /\ calls # <<>> THEN 1 ELSE 0)
    /\ InListOrder(CallsInPhase(1), table.before)
    /\ Len(CallsInPhase(2)) <= 1
    /\ InListOrder(CallsInPhase(4), table.after)
    /\ \A i \in 1..(Len(calls) - 1) :
          Phase(calls[i]) \in {1, 4} => calls[i].ok
    /\ pc = "returned" =>
          /\ Len(CallsInPhase(1)) = Len(table.before)
          /\ Len(CallsInPhase(2)) = 1
          /\ Len(CallsInPhase(4)) = Len(table.after)

\* fill returned after emptyTable, two before statements, two batches and two
\* after statements
C9_Witness ==
    /\ pc = "returned" /\ reset
    /\ Len(table.before) >= 2 /\ Len(table.after) >= 2
    /\ Cardinality(CallsOf("insert")) >= 2

\* ----------------------------------------------------------------- C10
\* C10: when executeRawQuery fails, the failed call is the last connector
\* call, and fill has failed to its caller with that error; so a failed
\* before statement is followed by no countLines, fetch, insert or after
\* statement, and nothing undoes what was done before it.
C10_HookFailure ==
    \A i \in CallsOf("executeRawQuery") :
        ~calls[i].ok =>
            /\ i = Len(calls)
            /\ pc = "threw"
            /\ error = calls[i]
            /\ Phase(calls[i]) = 1 =>
                  \A j \in 1..Len(calls) : Phase(calls[j]) <= 1

\* the second before statement failed after the first one was executed
C10_Witness ==
    /\ pc = "threw" /\ error.op = "executeRawQuery"
    /\ Len(table.before) >= 2 /\ Len(table.after) >= 1
    /\ error.sql = table.before[2]

\* ----------------------------------------------------------------- C11
\* C11 as stated: whenever a connector call fails, it is the last connector
\* call (it is not re-issued and nothing follows it, the after statements
\* included) and fill has failed to its caller with that error.
C11_FailuresPropagate_AsStated ==
    \A i \in 1..Len(calls) :
        ~calls[i].ok =>
            /\ i = Len(calls)
            /\ pc = "threw"
            /\ error = calls[i]

\* ----------------------------------------------------------------- C12
\* the column's value is read from its pool: it has a foreign key, no values
\* override and is not auto-increment
ReadsPool(column) ==
    column.foreignKey /\ column.values.kind = "none" /\ ~column.options.autoIncrement

\* the last call before the current batch: the last insert, or countLines
BatchStart ==
    LET S == { j \in 1..Len(calls) : calls[j].op \in {"insert", "countLines"} }
    IN IF S = {} THEN 0 ELSE CHOOSE j \in S : \A m \in S : m <= j

\* the fetches of column k that returned in the current batch
BatchFetches(k) ==
    { j \in (BatchStart + 1)..Len(calls) :
        calls[j].op = "getValuesForForeignKeys" /\ calls[j].col = k /\ calls[j].ok }

\* the first and the last value of the pool that fetch j returned (the model's
\* connector returns the values j + 1 .. j + res, in this order)
PoolFirst(j) == j + 1
PoolLast(j) == j + calls[j].res

\* C12 as stated: in every row about to be passed to insert, the value of a
\* column that reads its foreign-key pool is an element of the pool fetched
\* for that column in the same batch.
C12_ForeignKeyFidelity_AsStated ==
    pc = "insert" =>
        \A i \in 1..Len(rows) : \A k \in 1..Len(table.columns) :
            ReadsPool(table.columns[k]) =>
                \E j \in BatchFetches(k) :
                    rows[i][table.columns[k].name] \in PoolFirst(j)..PoolLast(j)

\* C12 amended: in every row about to be passed to insert, the value of a
\* column that reads its foreign-key pool is the entry, at the row's index,
\* of the pool fetched for that column in the same batch, or undefined when
\* that pool has no entry at the row's index; it is never any other value.
C12_ForeignKeyFidelity ==
    pc = "insert" =>
        \A i \in 1..Len(rows) : \A k \in 1..Len(table.columns) :
            ReadsPool(table.columns[k]) =>
                \E j \in BatchFetches(k) :
                    rows[i][table.columns[k].name] =
                        IF i <= calls[j].res THEN PoolFirst(j) + (i - 1) ELSE Undefined

\* the second batch is about to be inserted; its first row has a value of
\* the pool fetched in this batch and its second row has none
C12_Witness ==
    /\ pc = "insert" /\ CallsOf("insert") # {} /\ Len(rows) >= 2
    /\ \E k \in 1..Len(table.columns) :
          /\ ReadsPool(table.columns[k])
          /\ \E j \in BatchFetches(k) : rows[1][table.columns[k].name] = PoolFirst(j)
          /\ rows[2][table.columns[k].name] = Undefined

\* ----------------------------------------------------------------- C13
\* C13: no row about to be passed to insert has a key for an auto-increment
\* column, whether that column also has a values override, a foreign key or
\* a generator tag; the keys of a row are the names of the other columns.
C13_AutoIncrementSkipped ==
    pc = "insert" =>
        \A i \in 1..Len(rows) :
            /\ \A k \in 1..Len(table.columns) :
                  table.columns[k].options.autoIncrement =>
                      table.columns[k].name \notin DOMAIN rows[i]
            /\ \A name \in DOMAIN rows[i] :
                  \E k \in 1..Len(table.columns) :
                      table.columns[k].name = name /\ ~table.columns[k].options.autoIncrement

\* a batch is about to be inserted for a table with an auto-increment column
\* that has a foreign key, whose fetch returned values, and the rows have
\* the key of another column
C13_Witness ==
    /\ pc = "insert" /\ Len(rows) >= 1
    /\ \E k \in 1..Len(table.columns) :
          /\ table.columns[k].options.autoIncrement /\ table.columns[k].foreignKey
          /\ \E j \in BatchFetches(k) : calls[j].res > 0
    /\ DOMAIN rows[1] # {}

\* ----------------------------------------------------------------- C14
\* the values an override can yield: the entries of the array, the entries
\* of the named pool, the keys of the weight map whose weight is positive
OverrideElements(column) ==
    CASE column.values.kind = "array" ->
            { column.values.pool[e] : e \in DOMAIN column.values.pool }
      [] column.values.kind = "string" ->
            { Schema.values[column.values.name][e] :
                e \in DOMAIN Schema.values[column.values.name] }
      [] column.values.kind = "object" ->
            { column.values.pool[e] :
                e \in { x \in DOMAIN column.values.pool : column.values.weights[x] > 0 } }

\* C14: in every row about to be passed to insert, the value of a column
\* that is not auto-increment and has a values override (a literal array, a
\* named pool or a weight map, each with at least one value to pick) is an
\* element of that override: not null, not undefined, not a value of the
\* foreign-key pool fetched for the column, not a value of its generator tag.
C14_ValuesOverride ==
    pc = "insert" =>
        \A i \in 1..Len(rows) : \A k \in 1..Len(table.columns) :
            (table.columns[k].values.kind # "none"
               /\ ~table.columns[k].options.autoIncrement) =>
                /\ rows[i][table.columns[k].name] \in OverrideElements(table.columns[k])
                /\ rows[i][table.columns[k].name] # Null
                /\ \A j \in BatchFetches(k) :
                      rows[i][table.columns[k].name] \notin PoolFirst(j)..PoolLast(j)

\* a batch is about to be inserted whose rows hold a value of the override
\* of a column that has a foreign key too, with a pool fetched for it
C14_Witness ==
    /\ pc = "insert" /\ Len(rows) >= 1
    /\ \E k \in 1..Len(table.columns) :
          /\ table.columns[k].values.kind = "array" /\ table.columns[k].foreignKey
          /\ \E j \in BatchFetches(k) : calls[j].res > 0
          /\ rows[1][table.columns[k].name] \in OverrideElements(table.columns[k])

\* ----------------------------------------------------------------- C15
\* C15: countLines is called at most once, after emptyTable and the before
\* statements and before every fetch, insert and after statement, and
\* exactly once when fill has returned; once it has answered, the tracked
\* row count is its answer plus the counts all inserts reported so far; an
\* insert that reported k with 0 < k < batch size is followed by a next
\* batch of min(1000, target - tracked count) rows; and an insert is issued
\* only after every earlier insert has returned.
C15_RowCountTracking ==
    /\ Cardinality(CallsOf("countLines")) <= 1
    /\ pc = "returned" => Cardinality(CallsOf("countLines")) = 1
    /\ \A i \in CallsOf("countLines") : \A j \in 1..Len(calls) :
          /\ (j < i) => Phase(calls[j]) \in {0, 1}
          /\ (j > i) => Phase(calls[j]) \in {3, 4}
    /\ Counted => currentNbRows = InitialCount + InsertedUpTo(Len(calls))
    /\ \A i \in CallsOf("insert") :
          /\ \A j \in CallsOf("insert") : (j < i) => calls[j].ok
          /\ (calls[i].ok /\ 0 < calls[i].res /\ calls[i].res < calls[i].n) =>
                LET next == Min(1000, maxLines - (InitialCount + InsertedUpTo(i)))
                IN /\ next >= 1
                   /\ IF i = Len(calls)
                      THEN pc \in {"getValuesForForeignKeys", "insert"} /\ runRows = next
                      ELSE /\ calls[i + 1].op \in {"getValuesForForeignKeys", "insert"}
                           /\ calls[i + 1].n = next

\* fill returned after a batch of which the sink kept a part only and a
\* further batch that filled the table to its target
C15_Witness ==
    /\ pc = "returned" /\ reset
    /\ currentNbRows = maxLines
    /\ \E i, j \in CallsOf("insert") :
          /\ i < j /\ calls[j].ok
          /\ 0 < calls[i].res /\ calls[i].res < calls[i].n

\* ----------------------------------------------------------------- C16
\* the last insert or countLines call before call m
Boundary(m) ==
    LET S == { j \in 1..(m - 1) : calls[j].op \in {"insert", "countLines"} }
    IN IF S = {} THEN 0 ELSE CHOOSE j \in S : \A x \in S : x <= j

\* the calls between the boundary and call m are one completed fetch for
\* each foreign-key column, in column order, each asking for n values with
\* the column's unique flag and where filter
FetchedOnce(m, n) ==
    LET first == Boundary(m) + 1
        fks == { k \in 1..Len(table.columns) : table.columns[k].foreignKey }
    IN /\ m - first = Cardinality(fks)
       /\ \A a \in first..(m - 1) :
             /\ calls[a].op = "getValuesForForeignKeys" /\ calls[a].ok
             /\ calls[a].col \in fks
             /\ calls[a].n = n
             /\ calls[a].unique = table.columns[calls[a].col].options.unique
             /\ calls[a].where = table.columns[calls[a].col].where
             /\ \A b \in (a + 1)..(m - 1) : calls[a].col < calls[b].col

\* C16: every insert, made or about to be made, is preceded in its batch by
\* exactly one completed getValuesForForeignKeys call for each foreign-key
\* column, in column order, asking for as many values as the batch has rows,
\* with the column's unique flag and the foreign key's where filter; the pool
\* the rows are built from is the one these calls returned, not one kept from
\* an earlier batch.
C16_FetchPerBatch ==
    /\ \A m \in CallsOf("insert") : FetchedOnce(m, calls[m].n)
    /\ pc = "insert" =>
          /\ FetchedOnce(Len(calls) + 1, Len(rows))
          /\ \A k \in 1..Len(table.columns) :
                table.columns[k].foreignKey =>
                    \E j \in BatchFetches(k) :
                        /\ Len(tableForeignKeyValues[Key(table.columns[k])]) = calls[j].res
                        /\ \A e \in 1..calls[j].res :
                              tableForeignKeyValues[Key(table.columns[k])][e]
                                  = PoolFirst(j) + (e - 1)

\* the second batch of a table is about to be inserted; both batches fetched
\* a non-empty pool for a unique foreign key with a where filter
C16_Witness ==
    /\ pc = "insert" /\ CallsOf("insert") # {}
    /\ \E k \in 1..Len(table.columns) :
          /\ table.columns[k].options.unique /\ table.columns[k].where # ""
          /\ \E j \in BatchFetches(k) : calls[j].res > 0 /\ calls[j].where # ""
          /\ \E j \in 1..BatchStart :
                calls[j].op = "getValuesForForeignKeys" /\ calls[j].col = k
                  /\ calls[j].res > 0

\* ----------------------------------------------------------------- C17
\* the column's value comes from its generator tag
Generated(column) ==
    /\ column.values.kind = "none" /\ ~column.foreignKey
    /\ ~column.options.autoIncrement

\* C17 as stated: when a batch is about to be inserted, for every column
\* synthesized from its generator tag: if the column is nullable and its tag
\* is not enum, some outcome of the random source makes its value null in a
\* row of the batch, whatever the tag and the other options; and if the
\* column is not nullable or its tag is enum, its value is null in no row.
C17_NullableSubstitution_AsStated ==
    pc = "insert" =>
        \A k \in 1..Len(table.columns) :
            Generated(table.columns[k]) =>
                IF table.columns[k].options.nullable /\ table.columns[k].generator # "enum"
                THEN \E seed \in Seeds : \E i \in 1..Len(rows) :
                        SynthRow(i, table.columns, tableForeignKeyValues,
                                 seed)[table.columns[k].name] = Null
                ELSE \A i \in 1..Len(rows) : rows[i][table.columns[k].name] # Null

\* ----------------------------------------------------------------- C18
\* fetch j returned fewer values than it was asked for, without starving
ShortAt(j) ==
    /\ calls[j].op = "getValuesForForeignKeys" /\ calls[j].ok
    /\ calls[j].res < calls[j].n
    /\ ~StarvedAt(j)

\* C18: a fetch that returned fewer values than the batch has rows, for a
\* nullable column or with at least one value, neither fails nor shrinks the
\* batch: right after it fill goes on with the batch, the insert of the
\* batch is given as many rows as the fetch was asked for, and in these rows
\* a column that reads the pool has the pool entry at the row's index up to
\* the pool's size and undefined beyond.
C18_ShortPool ==
    /\ \A j \in 1..Len(calls) :
          ShortAt(j) =>
              /\ (j = Len(calls)) =>
                    /\ pc \in {"getValuesForForeignKeys", "insert"}
                    /\ error = NoError
              /\ \A m \in CallsOf("insert") :
                    (Boundary(m) < j /\ j < m) => calls[m].n = calls[j].n
    /\ pc = "insert" =>
          \A k \in 1..Len(table.columns) : \A j \in BatchFetches(k) :
              ShortAt(j) =>
                  /\ Len(rows) = calls[j].n
                  /\ ReadsPool(table.columns[k]) =>
                        \A i \in 1..Len(rows) :
                            /\ table.columns[k].name \in DOMAIN rows[i]
                            /\ (i <= calls[j].res) =>
                                  rows[i][table.columns[k].name] = PoolFirst(j) + (i - 1)
                            /\ (i > calls[j].res) =>
                                  rows[i][table.columns[k].name] = Undefined

\* a batch of two rows is about to be inserted although the pool of a unique
\* foreign key has one value only: the first row has it, the second has none
C18_Witness ==
    /\ pc = "insert" /\ Len(rows) = 2
    /\ \E k \in 1..Len(table.columns) :
          /\ ReadsPool(table.columns[k]) /\ table.columns[k].options.unique
          /\ \E j \in BatchFetches(k) :
                /\ ShortAt(j) /\ calls[j].res = 1
                /\ rows[1][table.columns[k].name] = PoolLast(j)
          /\ rows[2][table.columns[k].name] = Undefined

\* ----------------------------------------------------------------- C19
\* the inserts that added at least one row, in the order they were made
AddingInserts ==
    SelectSeq([i \in 1..Len(calls) |-> i],
              LAMBDA i : calls[i].op = "insert" /\ calls[i].ok /\ calls[i].res > 0)

\* the progress reports and the warnings written so far, in order
Reports == SelectSeq(console, LAMBDA line : line.level = "log")
Warnings == SelectSeq(console, LAMBDA line : line.level = "warn")

\* the batches that ended in a stall, a starvation or a failed fetch
Aborts ==
    { i \in 1..Len(calls) : StallAt(i) \/ StarvedAt(i) \/ FetchFailedAt(i) }

\* C19 as stated: there is exactly one progress report for each insert that
\* added at least one row, in the same order, and it gives the tracked row
\* count after that insert against the target generateData computed,
\* whichever of maxLines and addLines the table sets; a batch that ended in
\* a stall or a starvation wrote a warning and no progress report.
C19_ProgressReports_AsStated ==
    /\ Len(Reports) = Len(AddingInserts)
    /\ \A a \in 1..Len(Reports) :
          /\ Reports[a].rows = InitialCount + InsertedUpTo(AddingInserts[a])
          /\ Reports[a].of = maxLines
    /\ Len(Warnings) = Cardinality(Aborts)

\* ----------------------------------------------------------------- C20
\* the column declares a foreign key whose pool no row reads: it is
\* auto-increment or has a values override
Unread(column) == column.foreignKey /\ ~ReadsPool(column)

\* column k was fetched between the boundary before call m and call m
FetchedBefore(k, m) ==
    \E j \in (Boundary(m) + 1)..(m - 1) :
        calls[j].op = "getValuesForForeignKeys" /\ calls[j].col = k /\ calls[j].ok

\* C20: a column that declares a foreign key and is auto-increment or has a
\* values override is fetched in every batch before the batch's insert,
\* although no row reads its pool; and when such a fetch returns no value
\* for a column that is not nullable, a starvation warning is written and
\* every later connector call is the execution of an after statement.
C20_UnreadForeignKey ==
    \A k \in 1..Len(table.columns) :
        Unread(table.columns[k]) =>
            /\ \A m \in CallsOf("insert") : FetchedBefore(k, m)
            /\ pc = "insert" =>
                  /\ FetchedBefore(k, Len(calls) + 1)
                  /\ \A i \in 1..Len(rows) : \A j \in BatchFetches(k) :
                        table.columns[k].name \in DOMAIN rows[i] =>
                            rows[i][table.columns[k].name] \notin PoolFirst(j)..PoolLast(j)
            /\ \A j \in CallsOf("getValuesForForeignKeys") :
                  (calls[j].col = k /\ StarvedAt(j)) =>
                      /\ pc \in {"after", "returned", "threw"}
                      /\ \E w \in 1..Len(console) : console[w] = WarnStarved
                      /\ \A x \in (j + 1)..Len(calls) :
                            calls[x].op = "executeRawQuery" /\ calls[x].sql[1] = "after"

\* fill returned after a first batch was inserted and, in the second batch,
\* the fetch for an auto-increment foreign key returned no value
C20_Witness ==
    /\ pc = "returned"
    /\ \E k \in 1..Len(table.columns) :
          /\ Unread(table.columns[k]) /\ table.columns[k].options.autoIncrement
          /\ \E m \in CallsOf("insert") : \E j \in CallsOf("getValuesForForeignKeys") :
                m < j /\ calls[m].res > 0 /\ calls[j].col = k /\ StarvedAt(j)

============================================================================
